---------------------------- MODULE Spec2Model ----------------------------
(***************************************************************************)
(* Model of the toll-traffic store tools: fetch_latest (FeedIngester),     *)
(* correct_file (generation-1 corrector) and correct_v2 (generation-2      *)
(* corrector), with the date/hour normalisation and the row-identity keys  *)
(* they rest on.                                                           *)
(*                                                                         *)
(* A Python str is a sequence of one-character strings, a CSV row a        *)
(* sequence of such strings, a file either Absent or the sequence of rows  *)
(* csv.reader yields for it (csv.writer followed by csv.reader gives back  *)
(* the rows written: every field here is a str).                           *)
(***************************************************************************)
EXTENDS Integers, Sequences, FiniteSets, TLC

(***************************************************************************)
(* Bounds of the model.                                                    *)
(***************************************************************************)
MaxRuns == 3
MaxClock == 1

(***************************************************************************)
(* str helpers (Python built-ins used by the three source files).          *)
(***************************************************************************)
Digits == <<"0", "1", "2", "3", "4", "5", "6", "7", "8", "9">>

IsDigitChar(c) == \E i \in 1..10 : Digits[i] = c

DigitVal(c) == (CHOOSE i \in 1..10 : Digits[i] = c) - 1

\* str.isdigit(): non-empty and every character a digit
isdigit(s) == Len(s) > 0 /\ \A i \in 1..Len(s) : IsDigitChar(s[i])

RECURSIVE DigitsToInt(_)
DigitsToInt(s) ==
    IF s = <<>> THEN 0
    ELSE 10 * DigitsToInt(SubSeq(s, 1, Len(s) - 1)) + DigitVal(s[Len(s)])

\* str.strip(): leading and trailing whitespace removed
RECURSIVE lstrip(_)
lstrip(s) == IF s # <<>> /\ Head(s) = " " THEN lstrip(Tail(s)) ELSE s

RECURSIVE rstrip(_)
rstrip(s) ==
    IF s # <<>> /\ s[Len(s)] = " " THEN rstrip(SubSeq(s, 1, Len(s) - 1)) ELSE s

strip(s) == rstrip(lstrip(s))

\* str.replace(old, new) for a one-character old; new is a str (possibly empty)
RECURSIVE replace(_, _, _)
replace(s, old, new) ==
    IF s = <<>> THEN <<>>
    ELSE (IF Head(s) = old THEN new ELSE <<Head(s)>>) \o replace(Tail(s), old, new)

\* str.split(sep) for a one-character sep: empty tokens are kept
RECURSIVE splitOn(_, _)
splitOn(s, sep) ==
    IF \A i \in 1..Len(s) : s[i] # sep THEN <<s>>
    ELSE LET k == CHOOSE i \in 1..Len(s) :
                      s[i] = sep /\ \A j \in 1..(i - 1) : s[j] # sep
         IN  <<SubSeq(s, 1, k - 1)>> \o splitOn(SubSeq(s, k + 1, Len(s)), sep)

\* str.split(): split on runs of whitespace, no empty tokens
split(s) == SelectSeq(splitOn(s, " "), LAMBDA t : t # <<>>)

\* ' '.join(parts)
RECURSIVE join(_)
join(parts) ==
    IF parts = <<>> THEN <<>>
    ELSE IF Len(parts) = 1 THEN parts[1]
    ELSE parts[1] \o <<" ">> \o join(Tail(parts))

\* int(x) of a token: an optional sign and digits. <<FALSE, 0>> is ValueError.
int(s) ==
    IF isdigit(s) THEN <<TRUE, DigitsToInt(s)>>
    ELSE IF Len(s) > 1 /\ s[1] = "+" /\ isdigit(Tail(s))
         THEN <<TRUE, DigitsToInt(Tail(s))>>
    ELSE IF Len(s) > 1 /\ s[1] = "-" /\ isdigit(Tail(s))
         THEN <<TRUE, 0 - DigitsToInt(Tail(s))>>
    ELSE <<FALSE, 0>>

\* zero-padded decimal, as in %02d / %04d
Pad2(n) == <<Digits[((n \div 10) % 10) + 1], Digits[(n % 10) + 1]>>

Pad4(n) == Pad2(n \div 100) \o Pad2(n % 100)

(***************************************************************************)
(* datetime and zoneinfo (Python standard library), as far as the source   *)
(* uses them.  A parsed datetime is a record; ok = FALSE is ValueError.    *)
(***************************************************************************)
IsLeap(y) == (y % 4 = 0 /\ y % 100 # 0) \/ y % 400 = 0

DaysInMonth(y, m) ==
    IF m = 2 THEN (IF IsLeap(y) THEN 29 ELSE 28)
    ELSE IF m \in {4, 6, 9, 11} THEN 30 ELSE 31

\* datetime(y, m, d, ...) accepts years MINYEAR..MAXYEAR and real calendar days
ValidDate(y, m, d) ==
    /\ y >= 1 /\ y <= 9999
    /\ m >= 1 /\ m <= 12
    /\ d >= 1 /\ d <= DaysInMonth(y, m)

DaysBeforeYear(y) ==
    ((y - 1) * 365) + ((y - 1) \div 4) - ((y - 1) \div 100) + ((y - 1) \div 400)

RECURSIVE DaysBeforeMonth(_, _)
DaysBeforeMonth(y, m) ==
    IF m = 1 THEN 0 ELSE DaysBeforeMonth(y, m - 1) + DaysInMonth(y, m - 1)

\* date.toordinal(): 0001-01-01 is day 1
Ordinal(y, m, d) == DaysBeforeYear(y) + DaysBeforeMonth(y, m) + d

\* date.weekday(): Monday is 0, Sunday is 6
Weekday(y, m, d) == (Ordinal(y, m, d) + 6) % 7

\* minutes from 0001-01-01 00:00 of a wall-clock reading
Minutes(y, m, d, H, Mi) == (((Ordinal(y, m, d) - 1) * 24 + H) * 60) + Mi

\* the civil date and time of a minute count (the inverse of Minutes)
CivilOf(t) ==
    LET n   == (t \div 1440) + 1
        y   == CHOOSE yy \in (n \div 366)..((n \div 365) + 1) :
                   yy >= 1 /\ DaysBeforeYear(yy) < n /\ n <= DaysBeforeYear(yy + 1)
        doy == n - DaysBeforeYear(y)
        m   == CHOOSE mm \in 1..12 :
                   DaysBeforeMonth(y, mm) < doy
                   /\ doy <= DaysBeforeMonth(y, mm) + DaysInMonth(y, mm)
    IN  [y |-> y, mo |-> m, d |-> doy - DaysBeforeMonth(y, m),
         H |-> (t % 1440) \div 60, Mi |-> t % 60]

LastSunday(y, m) ==
    CHOOSE d \in (DaysInMonth(y, m) - 6)..DaysInMonth(y, m) : Weekday(y, m, d) = 6

\* Europe/Athens (tzdata, EU rule in force since 1981): EET +02:00, and EEST
\* +03:00 from the last Sunday of March 01:00 UTC to the last Sunday of
\* October 01:00 UTC.
EET == 120
EEST == 180
DstMonthStart == 3
DstMonthEnd == 10
DstHourUTC == 1

\* ZoneInfo.utcoffset of a UTC instant (what astimezone(tz) uses)
AthensOffsetUTC(t) ==
    LET y == CivilOf(t).y
    IN  IF /\ Minutes(y, DstMonthStart, LastSunday(y, DstMonthStart), DstHourUTC, 0) <= t
           /\ t < Minutes(y, DstMonthEnd, LastSunday(y, DstMonthEnd), DstHourUTC, 0)
        THEN EEST ELSE EET

\* ZoneInfo.utcoffset of a wall-clock reading with fold = 0 (what
\* dt.replace(tzinfo=tz) gives): a reading in the spring gap takes the offset
\* before the change, a repeated autumn reading the first (summer) one.
AthensOffsetLocal(y, m, d, H, Mi) ==
    LET t == Minutes(y, m, d, H, Mi)
    IN  IF /\ Minutes(y, DstMonthStart, LastSunday(y, DstMonthStart), DstHourUTC, 0)
                  + EEST <= t
           /\ t < Minutes(y, DstMonthEnd, LastSunday(y, DstMonthEnd), DstHourUTC, 0)
                  + EEST
        THEN EEST ELSE EET

\* the "+HH:MM" / "-HH:MM" suffix isoformat writes for a utcoffset in minutes
FormatOffset(off) ==
    LET a == IF off < 0 THEN 0 - off ELSE off
    IN  <<IF off < 0 THEN "-" ELSE "+">> \o Pad2(a \div 60) \o <<":">> \o Pad2(a % 60)

\* datetime.isoformat(sep=' ') of an aware datetime without microseconds
isoformat(y, m, d, H, Mi, S, off) ==
    Pad4(y) \o <<"-">> \o Pad2(m) \o <<"-">> \o Pad2(d) \o <<" ">>
        \o Pad2(H) \o <<":">> \o Pad2(Mi) \o <<":">> \o Pad2(S) \o FormatOffset(off)

NoDate == [ok |-> FALSE, y |-> 0, mo |-> 0, d |-> 0, H |-> 0, Mi |-> 0]

\* 1 or 2 digits with a value in lo..hi (strptime's %d, %m, %H, %M fields)
Field12(tok, lo, hi) ==
    /\ isdigit(tok) /\ Len(tok) <= 2
    /\ DigitsToInt(tok) >= lo /\ DigitsToInt(tok) <= hi

\* the fields of a date token and a time token, checked as strptime's regular
\* expression and then datetime's constructor check them
StrpFields(dp, tp, dmy, withMin) ==
    IF /\ Len(dp) = 3
       /\ Len(tp) = (IF withMin THEN 2 ELSE 1)
       /\ isdigit(dp[IF dmy THEN 3 ELSE 1]) /\ Len(dp[IF dmy THEN 3 ELSE 1]) = 4
       /\ Field12(dp[2], 1, 12)
       /\ Field12(dp[IF dmy THEN 1 ELSE 3], 1, 31)
       /\ Field12(tp[1], 0, 23)
       /\ (withMin => Field12(tp[2], 0, 59))
       /\ ValidDate(DigitsToInt(dp[IF dmy THEN 3 ELSE 1]), DigitsToInt(dp[2]),
                    DigitsToInt(dp[IF dmy THEN 1 ELSE 3]))
    THEN [ok |-> TRUE, y |-> DigitsToInt(dp[IF dmy THEN 3 ELSE 1]),
          mo |-> DigitsToInt(dp[2]), d |-> DigitsToInt(dp[IF dmy THEN 1 ELSE 3]),
          H |-> DigitsToInt(tp[1]),
          Mi |-> IF withMin THEN DigitsToInt(tp[2]) ELSE 0]
    ELSE NoDate

StrpTokens(parts, dmy, withMin) ==
    IF Len(parts) # 2 THEN NoDate
    ELSE StrpFields(splitOn(parts[1], IF dmy THEN "/" ELSE "-"),
                    splitOn(parts[2], ":"), dmy, withMin)

\* datetime.strptime(s, fmt) for the four formats of fmts: dmy says whether the
\* date is %d/%m/%Y (else %Y-%m-%d), withMin whether the time is %H:%M (else
\* %H).  The blank of the format matches a run of whitespace, and the whole of
\* s must be consumed, so s is exactly two tokens.
strptime(s, dmy, withMin) == StrpTokens(split(s), dmy, withMin)

\* ZoneInfo("Europe/Athens") attached to a wall-clock reading, then
\* isoformat(sep=' ')
AthensIsoAt(y, m, d, H, Mi, off) == isoformat(y, m, d, H, Mi, 0, off)

\* dt.replace(tzinfo=ZoneInfo("Europe/Athens")).isoformat(sep=' ')
AthensIso(dt) ==
    AthensIsoAt(dt.y, dt.mo, dt.d, dt.H, dt.Mi,
                AthensOffsetLocal(dt.y, dt.mo, dt.d, dt.H, dt.Mi))

(***************************************************************************)
(* fetch_latest.py: DateTimeNormalizer, RowProjector, IdentityResolver.    *)
(***************************************************************************)
\* the literals the code compares a trailing field with: '', 'None', 'none'
Placeholders == {<<>>, <<"N", "o", "n", "e">>, <<"n", "o", "n", "e">>}

datetimeLabel == <<"d", "a", "t", "e", "t", "i", "m", "e">>

_strip_angles(x) == strip(replace(replace(strip(x), "<", <<>>), ">", <<>>))

\* fmts, in the order tried: <<day/month/year?, with minutes?>>
fmts == << <<TRUE, TRUE>>, <<TRUE, FALSE>>, <<FALSE, TRUE>>, <<FALSE, FALSE>> >>

\* datetime(y, m, d, h, tzinfo=tz).isoformat(sep=' '), or <<FALSE, <<>>>> when
\* the constructor raises
LooseDate(y, m, d, h) ==
    IF h[1] /\ h[2] >= 0 /\ h[2] <= 23 /\ ValidDate(y, m, d)
    THEN <<TRUE, AthensIso([y |-> y, mo |-> m, d |-> d, H |-> h[2], Mi |-> 0])>>
    ELSE <<FALSE, <<>>>>

\* the loose YYYYMMDD fallback; <<FALSE, <<>>>> when it does not apply or raises
LooseParse(parts) ==
    IF Len(parts[1]) = 8 /\ isdigit(parts[1])
    THEN LooseDate(DigitsToInt(SubSeq(parts[1], 1, 4)),
                   DigitsToInt(SubSeq(parts[1], 5, 6)),
                   DigitsToInt(SubSeq(parts[1], 7, 8)),
                   int(splitOn(IF Len(parts) > 1 THEN parts[2] ELSE <<"0">>, ":")[1]))
    ELSE <<FALSE, <<>>>>

\* the last resort: the loose parse, else the cleaned string itself
LooseOrRaw(s, loose) == IF loose[1] THEN loose[2] ELSE s

\* for f in fmts: the first format that parses wins
FirstFormat(s, parts, tries) ==
    IF \E i \in 1..Len(fmts) : tries[i].ok
    THEN AthensIso(tries[CHOOSE i \in 1..Len(fmts) :
                             tries[i].ok /\ \A j \in 1..(i - 1) : ~tries[j].ok])
    ELSE LooseOrRaw(s, LooseParse(parts))

TryFormats(s, parts) ==
    FirstFormat(s, parts,
                [i \in 1..Len(fmts) |-> strptime(s, fmts[i][1], fmts[i][2])])

\* an hour-only second token gets ':00' and the string is joined again
HourFixed(s0, parts0) ==
    IF Len(parts0) = 2 /\ isdigit(parts0[2])
    THEN TryFormats(join(<<parts0[1], parts0[2] \o <<":", "0", "0">>>>),
                    <<parts0[1], parts0[2] \o <<":", "0", "0">>>>)
    ELSE TryFormats(s0, parts0)

\* s = f"{date_clean} {hour_clean}".strip() onwards
ParseCleaned(s0) == IF s0 = <<>> THEN s0 ELSE HourFixed(s0, split(s0))

_try_parse_datetime(date_str, hour_str) ==
    ParseCleaned(strip(_strip_angles(date_str) \o <<" ">> \o _strip_angles(hour_str)))

\* r[1] = combined (or r.insert(1, combined)), then del r[2]
MergeDateHour(row, combined) ==
    IF Len(row) > 2 THEN <<row[1], combined>> \o SubSeq(row, 4, Len(row))
    ELSE <<row[1], combined>>

\* rr = list(r) with the trailing placeholder dropped when the header says so
StripRow(r, drop_right) ==
    IF drop_right /\ r # <<>> /\ r[Len(r)] \in Placeholders
    THEN SubSeq(r, 1, Len(r) - 1) ELSE r

_processed_row_from_raw(row, drop_right) ==
    IF row = <<>> THEN row
    ELSE StripRow(MergeDateHour(row,
                      _try_parse_datetime(IF Len(row) > 1 THEN row[2] ELSE <<>>,
                                          IF Len(row) > 2 THEN row[3] ELSE <<>>)),
                  drop_right)

_keys_from_existing_row(row) ==
    LET sep   == IF Len(row) >= 5 THEN {SubSeq(row, 1, 5)} ELSE {}
        parts == split(replace(row[2], "T", <<" ">>))
        date_part == IF parts # <<>> THEN parts[1] ELSE <<>>
        hour_part == IF Len(parts) > 1 THEN parts[2] ELSE <<>>
        comb  == IF Len(row) >= 4
                 THEN {<<row[1], date_part, hour_part, row[3], row[4]>>} ELSE {}
    IN  sep \cup comb

\* drop_right = bool(header and header[-1] in ('', 'None', 'none'))
DropRight(header) == header # <<>> /\ header[Len(header)] \in Placeholders

\* proc_header: position 1 renamed, position 2 removed, trailing placeholder dropped
ProcHeader(header) ==
    LET h1 == IF Len(header) > 2
              THEN <<header[1], datetimeLabel>> \o SubSeq(header, 4, Len(header))
              ELSE header
    IN  IF DropRight(header) /\ h1 # <<>> /\ h1[Len(h1)] \in Placeholders
        THEN SubSeq(h1, 1, Len(h1) - 1) ELSE h1

\* a sequence as the set of its elements
Range(f) == {f[i] : i \in DOMAIN f}

\* existing_keys: the keys of every row of the store file, header row included
ExistingKeys(file) == UNION {_keys_from_existing_row(r) : r \in Range(file)}

\* new_processed_rows: the fetched rows whose key is None or not in existing_keys
RECURSIVE NewProcessedRows(_, _, _)
NewProcessedRows(rows, existing_keys, drop_right) ==
    IF rows = <<>> THEN <<>>
    ELSE (IF Len(Head(rows)) < 5 \/ SubSeq(Head(rows), 1, 5) \notin existing_keys
          THEN <<_processed_row_from_raw(Head(rows), drop_right)>> ELSE <<>>)
         \o NewProcessedRows(Tail(rows), existing_keys, drop_right)

(***************************************************************************)
(* corrector_v2.py: the ISO-with-offset shape and its re-expression.       *)
(***************************************************************************)
IsoLen == 25

\* the characters the regular expression fixes, by position (1-based)
IsoPunct == [i \in {5, 8, 11, 14, 17, 23} |->
                IF i \in {5, 8} THEN "-" ELSE IF i = 11 THEN " " ELSE ":"]

\* ^\d{4}-\d{2}-\d{2} \d{2}:\d{2}:\d{2}[+-]\d{2}:\d{2}$
_is_iso_with_tz(s) ==
    /\ Len(s) = IsoLen
    /\ \A i \in 1..IsoLen :
          IF i \in DOMAIN IsoPunct THEN s[i] = IsoPunct[i]
          ELSE IF i = 20 THEN s[i] \in {"+", "-"}
          ELSE IsDigitChar(s[i])

\* the fields of a string of that shape
IsoFields(s) ==
    [y   |-> DigitsToInt(SubSeq(s, 1, 4)),   mo |-> DigitsToInt(SubSeq(s, 6, 7)),
     d   |-> DigitsToInt(SubSeq(s, 9, 10)),  H  |-> DigitsToInt(SubSeq(s, 12, 13)),
     Mi  |-> DigitsToInt(SubSeq(s, 15, 16)), S  |-> DigitsToInt(SubSeq(s, 18, 19)),
     off |-> (IF s[20] = "-" THEN 0 - 1 ELSE 1)
             * ((DigitsToInt(SubSeq(s, 21, 22)) * 60) + DigitsToInt(SubSeq(s, 24, 25)))]

\* datetime.fromisoformat(s) succeeds on a string of that shape
FromIsoOk(s) ==
    LET f == IsoFields(s)
    IN  /\ ValidDate(f.y, f.mo, f.d)
        /\ f.H <= 23 /\ f.Mi <= 59 /\ f.S <= 59
        /\ f.off > 0 - 1440 /\ f.off < 1440

\* the instant of a parsed value, in minutes of UTC (its seconds are kept apart)
UtcMinutes(f) == Minutes(f.y, f.mo, f.d, f.H, f.Mi) - f.off

\* a faulty variant: the wall-clock reading is kept and only its offset is
\* relabelled (dt.replace(tzinfo=tz) in place of dt.astimezone(tz))
normalize_relabels_offset(s) ==
    IF ~(_is_iso_with_tz(s) /\ FromIsoOk(s)) THEN s
    ELSE isoformat(IsoFields(s).y, IsoFields(s).mo, IsoFields(s).d,
                   IsoFields(s).H, IsoFields(s).Mi, IsoFields(s).S,
                   AthensOffsetLocal(IsoFields(s).y, IsoFields(s).mo, IsoFields(s).d,
                                     IsoFields(s).H, IsoFields(s).Mi))

\* dt.astimezone(ZoneInfo('Europe/Athens')).isoformat(sep=' '); a string the
\* parser rejects comes back as it is.  correct_v2 calls this only on strings
\* of the shape above, which always carry an offset.
_normalize_iso_with_tz(s) ==
    IF ~(_is_iso_with_tz(s) /\ FromIsoOk(s)) THEN s
    ELSE LET f   == IsoFields(s)
             utc == UtcMinutes(f)
             off == AthensOffsetUTC(utc)
             c   == CivilOf(utc + off)
         IN  isoformat(c.y, c.mo, c.d, c.H, c.Mi, f.S, off)

\* the row matches: at least 2 columns and the second looks like ISO+tz
Touches(rr) == Len(rr) > 1 /\ _is_iso_with_tz(rr[2])

\* one pass of the loop body of correct_v2 over a data row
V2Stripped(rr) ==
    IF Touches(rr) THEN [rr EXCEPT ![2] = _normalize_iso_with_tz(rr[2])] ELSE rr

V2Row(r, drop_right) == V2Stripped(StripRow(r, drop_right))

\* out_rows: the processed header followed by the processed data rows
V2OutRows(rows) ==
    <<ProcHeader(rows[1])>>
        \o [i \in 1..(Len(rows) - 1) |-> V2Row(rows[i + 1], DropRight(rows[1]))]

\* touched: the number of data rows that match
Touched(rows) ==
    Cardinality({i \in 2..Len(rows) : Touches(StripRow(rows[i], DropRight(rows[1])))})

(***************************************************************************)
(* corrector.py (generation 1): its own copies of the normaliser and the   *)
(* projector, and the content it writes.                                   *)
(***************************************************************************)
\* corrector.py carries the same _try_parse_datetime and
\* _processed_row_from_raw, statement for statement
corrector_try_parse_datetime(date_str, hour_str) ==
    ParseCleaned(strip(_strip_angles(date_str) \o <<" ">> \o _strip_angles(hour_str)))

\* a faulty variant: drop_right is ignored, the trailing placeholder stays
corrector_row_keeps_trailing(row, drop_right) ==
    IF row = <<>> THEN row
    ELSE MergeDateHour(row,
             corrector_try_parse_datetime(IF Len(row) > 1 THEN row[2] ELSE <<>>,
                                          IF Len(row) > 2 THEN row[3] ELSE <<>>))

\* a variant that looks at the row first and leaves one that already carries a
\* canonical timestamp alone
corrector_row_skips_combined(row, drop_right) ==
    IF row = <<>> THEN row
    ELSE IF Len(row) > 1 /\ _is_iso_with_tz(row[2]) THEN StripRow(row, drop_right)
    ELSE StripRow(MergeDateHour(row,
                      corrector_try_parse_datetime(IF Len(row) > 1 THEN row[2] ELSE <<>>,
                                                   IF Len(row) > 2 THEN row[3] ELSE <<>>)),
                  drop_right)

corrector_processed_row_from_raw(row, drop_right) ==
    IF row = <<>> THEN row
    ELSE StripRow(MergeDateHour(row,
                      corrector_try_parse_datetime(IF Len(row) > 1 THEN row[2] ELSE <<>>,
                                                   IF Len(row) > 2 THEN row[3] ELSE <<>>)),
                  drop_right)

\* what correct_file writes: proc_header, then every data row projected
V1OutRows(reader) ==
    <<ProcHeader(reader[1])>>
        \o [i \in 1..(Len(reader) - 1) |->
                corrector_processed_row_from_raw(reader[i + 1], DropRight(reader[1]))]

(***************************************************************************)
(* The data the model runs on: field values, feed responses and the store  *)
(* files a run may start from.                                             *)
(***************************************************************************)
sMotorway == <<"m", "o", "t", "o", "r", "w", "a", "y">>

sDate == <<"d", "a", "t", "e">>

sHour == <<"h", "o", "u", "r">>

sStation == <<"s", "t", "a", "t", "i", "o", "n">>

sDirection == <<"d", "i", "r", "e", "c", "t", "i", "o", "n">>

sA1 == <<"A", "1">>

sSt1 == <<"S", "t", "1">>

sN == <<"N">>

sS == <<"S">>

sDateSummer == <<"0", "1", "/", "0", "6", "/", "2", "0", "2", "5">>

sHour15 == <<"1", "5">>

sDateWinter == <<"0", "1", "/", "1", "2", "/", "2", "0", "2", "5">>

sHour7 == <<"7">>

sDateBad == <<"n", "/", "a">>

sHourBad == <<"s", "o", "o", "n">>

sIsoUtcSummer == <<"2", "0", "2", "5", "-", "0", "6", "-", "0", "1", " ", "1", "5", ":", "0", "0", ":", "0", "0", "+", "0", "0", ":", "0", "0">>

sIsoAthensSummer == <<"2", "0", "2", "5", "-", "0", "6", "-", "0", "1", " ", "1", "8", ":", "0", "0", ":", "0", "0", "+", "0", "3", ":", "0", "0">>

sIsoUtcWinter == <<"2", "0", "2", "5", "-", "1", "2", "-", "0", "1", " ", "1", "5", ":", "0", "0", ":", "0", "0", "+", "0", "0", ":", "0", "0">>

sIsoLocalSummer == <<"2", "0", "2", "5", "-", "0", "6", "-", "0", "1", " ", "1", "5", ":", "0", "0", ":", "0", "0", "+", "0", "3", ":", "0", "0">>

sIsoLocalWinter == <<"2", "0", "2", "5", "-", "1", "2", "-", "0", "1", " ", "0", "7", ":", "0", "0", ":", "0", "0", "+", "0", "2", ":", "0", "0">>

sNotIso == <<"0", "1", "/", "0", "6", "/", "2", "0", "2", "5", " ", "1", "5", "h">>

\* the header of the remote feed (and of a legacy Layout-A store): the line
\* ends in ';', so csv.reader yields a trailing empty field
LayoutAHeader == <<sMotorway, sDate, sHour, sStation, sDirection, <<>>>>

CanonHeader == <<sMotorway, datetimeLabel, sStation, sDirection>>

RawSummer == <<sA1, sDateSummer, sHour15, sSt1, sN, <<>>>>

RawWinter == <<sA1, sDateWinter, sHour7, sSt1, sS, <<>>>>

RawBad == <<sA1, sDateBad, sHourBad, sSt1, sN, <<>>>>

\* the responses requests.get may return, as csv.reader(delimiter=';') reads them
Feeds == << <<LayoutAHeader, RawSummer>>,
            <<LayoutAHeader, RawSummer, RawBad>>,
            <<>> >>

\* a file: absent, or the rows csv.reader yields for it
Absent == [exists |-> FALSE, rows |-> <<>>]

File(rows) == [exists |-> TRUE, rows |-> rows]

\* the store files a run may find
InitialStores ==
    { Absent,
      File(<<LayoutAHeader, RawSummer, RawWinter>>),
      File(<<CanonHeader, <<sA1, sIsoUtcSummer, sSt1, sN>>, <<sA1, sNotIso, sSt1, sS>>>>),
      File(<<LayoutAHeader, <<sA1, sIsoUtcWinter, sSt1, sN, <<>>>>,
                            <<sA1, sNotIso, sSt1, sS, <<"N", "o", "n", "e">>>>>>) }

(***************************************************************************)
(* State.  store, bak, fixed and backups are the files; clock is the wall  *)
(* clock in seconds; pc and out are the running pass's position and its    *)
(* rows in memory.  last, prior, lost and runs record the history the      *)
(* properties are stated over.                                             *)
(***************************************************************************)
VARIABLES
    store,      \* IN_FILE / OUT_FILE of fetch_latest: toll_data.csv
    bak,        \* BACKUP_FILE of corrector.py: toll_data.bak.csv
    fixed,      \* OUT_FILE of corrector.py: toll_data_fixed.csv
    backups,    \* toll_data.backup.<stamp>.csv of corrector_v2.py, by stamp
    clock,      \* datetime.now(), in whole seconds
    pc,         \* where the running tool stands; "idle" between runs
    out,        \* the rows the running corrector holds in memory
    last,       \* the latest run: tool, feed, outcome, store it started from
    prior,      \* the run before it: tool, feed, outcome
    lost,       \* the store a generation-1 pass backed up before its write failed
    runs        \* number of runs started

vars == <<store, bak, fixed, backups, clock, pc, out, last, prior, lost, runs>>

files == <<store, bak, fixed, backups>>

NoRun == [op |-> "none", arg |-> 0, res |-> "none", pre |-> Absent]

Summary(r) == [op |-> r.op, arg |-> r.arg, res |-> r.res]

Init ==
    /\ store \in InitialStores
    /\ bak = Absent
    /\ fixed = Absent
    /\ backups = [t \in 0..MaxClock |-> Absent]
    /\ clock = 0
    /\ pc = "idle"
    /\ out = <<>>
    /\ last = NoRun
    /\ prior = Summary(NoRun)
    /\ lost = Absent
    /\ runs = 0

\* a tool is started: the history moves on
Begin(op, arg, res) ==
    /\ pc = "idle"
    /\ runs < MaxRuns
    /\ runs' = runs + 1
    /\ prior' = Summary(last)
    /\ last' = [op |-> op, arg |-> arg, res |-> res, pre |-> store]

\* the running tool ends with outcome res
End(res) ==
    /\ pc' = "idle"
    /\ out' = <<>>
    /\ last' = [last EXCEPT !.res = res]
    /\ UNCHANGED <<prior, runs>>

\* the rows written so far when a write fails part-way
Prefixes(rows) == {SubSeq(rows, 1, k) : k \in 0..(Len(rows) - 1)}

Tick ==
    /\ clock < MaxClock
    /\ clock' = clock + 1
    /\ UNCHANGED <<files, pc, out, last, prior, lost, runs>>

(***************************************************************************)
(* fetch_latest.py                                                         *)
(***************************************************************************)
\* with open(OUT_FILE, 'a'): the header first when the file is new, then the rows
AppendRows(file, proc_header, new_processed_rows) ==
    IF new_processed_rows = <<>> THEN file
    ELSE IF file.exists THEN File(file.rows \o new_processed_rows)
    ELSE File(<<proc_header>> \o new_processed_rows)

\* the store after fetch_latest has read the response data
FetchResult(data, file) ==
    IF data = <<>> THEN file
    ELSE AppendRows(file, ProcHeader(data[1]),
                    NewProcessedRows(Tail(data),
                                     IF file.exists THEN ExistingKeys(file.rows) ELSE {},
                                     DropRight(data[1])))

fetch_latest ==
    \E i \in 1..Len(Feeds) :
        /\ Begin("fetch", i, "ok")
        /\ store' = FetchResult(Feeds[i], store)
        /\ UNCHANGED <<bak, fixed, backups, clock, pc, out, lost>>

\* requests.get times out or raise_for_status raises: the run ends there
fetch_latest_network_error ==
    /\ Begin("fetch", 0, "neterr")
    /\ UNCHANGED <<files, clock, pc, out, lost>>

(***************************************************************************)
(* corrector.py: correct_file                                              *)
(***************************************************************************)
correct_file ==
    \/ /\ ~store.exists
       /\ Begin("v1", 0, "notfound")
       /\ UNCHANGED <<files, clock, pc, out, lost>>
    \/ /\ store.exists /\ store.rows = <<>>
       /\ Begin("v1", 0, "nodata")
       /\ UNCHANGED <<files, clock, pc, out, lost>>
    \/ /\ store.exists /\ store.rows # <<>>
       /\ Begin("v1", 0, "running")
       /\ out' = V1OutRows(store.rows)
       /\ pc' = "v1_backup"
       /\ UNCHANGED <<files, clock, lost>>

\* a faulty variant: the store is removed instead of renamed to the backup
correct_file_backup_removes ==
    /\ pc = "v1_backup"
    /\ store' = Absent
    /\ pc' = "v1_write"
    /\ UNCHANGED <<bak, fixed, backups, clock, out, last, prior, lost, runs>>

\* os.replace(in_file, backup_file)
correct_file_backup ==
    /\ pc = "v1_backup"
    /\ bak' = store
    /\ store' = Absent
    /\ pc' = "v1_write"
    /\ UNCHANGED <<fixed, backups, clock, out, last, prior, lost, runs>>

\* a faulty variant: the failed backup has already taken the store away
correct_file_backup_fails_losing_store ==
    /\ pc = "v1_backup"
    /\ store' = Absent
    /\ End("backup_failed")
    /\ UNCHANGED <<bak, fixed, backups, clock, lost>>

\* os.replace raises: "Failed to backup original file", return
correct_file_backup_fails ==
    /\ pc = "v1_backup"
    /\ End("backup_failed")
    /\ UNCHANGED <<files, clock, lost>>

\* open(out_file, 'w'), writerow(proc_header), writerows(rows)
correct_file_write ==
    /\ pc = "v1_write"
    /\ fixed' = File(out)
    /\ pc' = "v1_replace"
    /\ UNCHANGED <<store, bak, backups, clock, out, last, prior, lost, runs>>

\* the open fails, or the write fails after some rows
correct_file_write_fails ==
    /\ pc = "v1_write"
    /\ \/ fixed' = fixed
       \/ \E rows \in Prefixes(out) : fixed' = File(rows)
    /\ End("write_failed")
    /\ lost' = IF lost.exists THEN lost ELSE last.pre
    /\ UNCHANGED <<store, bak, backups, clock>>

\* os.replace(out_file, in_file)
correct_file_replace ==
    /\ pc = "v1_replace"
    /\ store' = fixed
    /\ fixed' = Absent
    /\ End("ok")
    /\ UNCHANGED <<bak, backups, clock, lost>>

correct_file_replace_fails ==
    /\ pc = "v1_replace"
    /\ End("write_failed")
    /\ lost' = IF lost.exists THEN lost ELSE last.pre
    /\ UNCHANGED <<files, clock>>

(***************************************************************************)
(* corrector_v2.py: correct_v2                                             *)
(***************************************************************************)
\* a faulty variant: the touched == 0 return is missing
correct_v2_without_touched_check ==
    \/ /\ ~store.exists
       /\ Begin("v2", 0, "notfound")
       /\ UNCHANGED <<files, clock, pc, out, lost>>
    \/ /\ store.exists /\ store.rows = <<>>
       /\ Begin("v2", 0, "nodata")
       /\ UNCHANGED <<files, clock, pc, out, lost>>
    \/ /\ store.exists /\ store.rows # <<>>
       /\ Begin("v2", 0, "running")
       /\ out' = V2OutRows(store.rows)
       /\ pc' = "v2_backup"
       /\ UNCHANGED <<files, clock, lost>>

correct_v2 ==
    \/ /\ ~store.exists
       /\ Begin("v2", 0, "notfound")
       /\ UNCHANGED <<files, clock, pc, out, lost>>
    \/ /\ store.exists /\ store.rows = <<>>
       /\ Begin("v2", 0, "nodata")
       /\ UNCHANGED <<files, clock, pc, out, lost>>
    \/ /\ store.exists /\ store.rows # <<>>
       /\ Touched(store.rows) = 0
       /\ Begin("v2", 0, "nomatch")
       /\ UNCHANGED <<files, clock, pc, out, lost>>
    \/ /\ store.exists /\ store.rows # <<>>
       /\ Touched(store.rows) # 0
       /\ Begin("v2", 0, "running")
       /\ out' = V2OutRows(store.rows)
       /\ pc' = "v2_backup"
       /\ UNCHANGED <<files, clock, lost>>

\* stamp = datetime.now().strftime('%Y%m%dT%H%M%S'); os.replace(in_path, backup)
correct_v2_backup ==
    /\ pc = "v2_backup"
    /\ backups' = [backups EXCEPT ![clock] = store]
    /\ store' = Absent
    /\ pc' = "v2_write"
    /\ UNCHANGED <<bak, fixed, clock, out, last, prior, lost, runs>>

\* os.replace raises: the exception ends the run
correct_v2_backup_fails ==
    /\ pc = "v2_backup"
    /\ End("backup_failed")
    /\ UNCHANGED <<files, clock, lost>>

\* open(in_path, 'w'), writerows(out_rows)
correct_v2_write ==
    /\ pc = "v2_write"
    /\ store' = File(out)
    /\ End("ok")
    /\ UNCHANGED <<bak, fixed, backups, clock, lost>>

\* the open fails, or the write fails after some rows
correct_v2_write_fails ==
    /\ pc = "v2_write"
    /\ \/ store' = Absent
       \/ \E rows \in Prefixes(out) : store' = File(rows)
    /\ End("write_failed")
    /\ UNCHANGED <<bak, fixed, backups, clock, lost>>

Next ==
    \/ Tick
    \/ fetch_latest
    \/ fetch_latest_network_error
    \/ correct_file
    \/ correct_file_backup
    \/ correct_file_backup_fails
    \/ correct_file_write
    \/ correct_file_write_fails
    \/ correct_file_replace
    \/ correct_file_replace_fails
    \/ correct_v2
    \/ correct_v2_backup
    \/ correct_v2_backup_fails
    \/ correct_v2_write
    \/ correct_v2_write_fails

Spec == Init /\ [][Next]_vars

(***************************************************************************)
(* Properties.                                                             *)
(***************************************************************************)
\* the latest run was a complete, successful run of tool op
Done(op) == pc = "idle" /\ last.op = op /\ last.res = "ok"

\* this step starts a run of tool op
Starts(op) == pc = "idle" /\ runs' # runs /\ last'.op = op

DataRows(file) == 2..Len(file.rows)

\* C1: running fetch_latest twice in a row with the same feed response appends
\* nothing the second time: the store after the second run is the store after
\* the first.
C1_SecondFetchAppendsNothing ==
    (/\ Done("fetch") /\ prior.op = "fetch" /\ prior.res = "ok"
     /\ last.arg = prior.arg)
        => store = last.pre

\* C2: for every feed observation, the keys of its Layout-A row and the keys of
\* its combined stored form (the row _processed_row_from_raw writes) share a
\* key, and the raw first-5-column key is among the keys of the combined form.
C2_KeysOverlapAcrossLayouts ==
    Done("fetch") =>
        \A k \in 2..Len(Feeds[last.arg]) :
            LET raw == Feeds[last.arg][k]
                stored == _processed_row_from_raw(raw, DropRight(Feeds[last.arg][1]))
            IN  Len(raw) >= 5 =>
                    /\ _keys_from_existing_row(raw) \cap _keys_from_existing_row(stored) # {}
                    /\ SubSeq(raw, 1, 5) \in _keys_from_existing_row(stored)

\* the backup file of the running pass holds the store the pass started from
BackupHoldsOriginal ==
    \/ last.op = "v1" /\ bak = last.pre
    \/ last.op = "v2" /\ \E t \in 0..MaxClock : backups[t] = last.pre

\* C3: in both correctors nothing is written as new content before the backup
\* rename has completed, a pass renames the store away at most once (only from
\* its backup step, with the store as the pass found it, and the store comes
\* back only as the pass ends), and a pass whose backup rename fails ends with
\* every file as it was: the store at its path with its content, no output.
C3_BackupBeforeWrite ==
    [][ /\ (Starts("v1") \/ Starts("v2")) => UNCHANGED files
        /\ (pc # "idle" /\ (fixed' # fixed \/ (store' # store /\ store'.exists)))
              => (~store.exists /\ BackupHoldsOriginal)
        /\ (bak' # bak \/ backups' # backups \/ (store.exists /\ ~store'.exists))
              => /\ pc \in {"v1_backup", "v2_backup"}
                 /\ store = last.pre /\ ~store'.exists
                 /\ BackupHoldsOriginal'
        /\ (pc # "idle" /\ ~store.exists /\ store'.exists) => pc' = "idle"
        /\ (pc \in {"v1_backup", "v2_backup"} /\ pc' = "idle")
              => /\ UNCHANGED files
                 /\ store = last.pre /\ store.exists
                 /\ last'.res = "backup_failed"
      ]_vars

C3_Witness ==
    /\ pc = "idle" /\ last.op \in {"v1", "v2"} /\ last.res = "backup_failed"
    /\ store.exists /\ store = last.pre /\ ~fixed.exists

\* C4: correct_v2 never overwrites a backup file an earlier correct_v2 run
\* created, two runs within one clock second included.
C4_BackupNeverOverwritten ==
    [][ \A t \in 0..MaxClock : backups[t].exists => backups'[t] = backups[t] ]_vars

\* no data row of the file has, once its trailing placeholder is stripped, an
\* ISO-with-offset field 1
NoIsoRow(file) ==
    /\ file.exists /\ file.rows # <<>>
    /\ \A i \in DataRows(file) :
          ~Touches(StripRow(file.rows[i], DropRight(file.rows[1])))

\* C5: a correct_v2 run that finds no data row of the ISO-with-offset shape
\* ends at once, creates no backup and leaves every file as it was, trailing
\* placeholders in header and rows included.
C5_NoMatchLeavesStore ==
    [][ (Starts("v2") /\ NoIsoRow(store)) => (UNCHANGED files /\ pc' = "idle") ]_vars

C5_Witness ==
    /\ pc = "idle" /\ last.op = "v2" /\ last.res = "nomatch"
    /\ store = last.pre /\ Len(store.rows) > 1
    /\ DropRight(store.rows[1])
    /\ \A t \in 0..MaxClock : ~backups[t].exists

\* new is old on the same instant in the Europe/Athens offset of that instant
\* (a string the parser rejects stays as it is)
ReExpressed(old, new) ==
    IF ~FromIsoOk(old) THEN new = old
    ELSE /\ _is_iso_with_tz(new) /\ FromIsoOk(new)
         /\ UtcMinutes(IsoFields(new)) = UtcMinutes(IsoFields(old))
         /\ IsoFields(new).S = IsoFields(old).S
         /\ IsoFields(new).off \in {EET, EEST}
         /\ IsoFields(new).off = AthensOffsetUTC(UtcMinutes(IsoFields(old)))
         /\ (old = sIsoUtcSummer => new = sIsoAthensSummer)

\* a written row against the row read (its flagged trailing placeholder gone)
RowFrame(old, new) ==
    IF Touches(old)
    THEN /\ Len(new) = Len(old)
         /\ \A j \in 1..Len(old) : j # 2 => new[j] = old[j]
         /\ ReExpressed(old[2], new[2])
    ELSE new = old

\* C6: a correct_v2 rewrite keeps the number and order of the data rows, writes
\* every row not of the ISO-with-offset shape back field for field, and in a
\* row of that shape changes field 1 only, to the same instant in the
\* Europe/Athens offset.
C6_RewriteTouchesOnlyIsoField ==
    Done("v2") =>
        /\ Len(store.rows) = Len(last.pre.rows)
        /\ \A i \in DataRows(last.pre) :
              RowFrame(StripRow(last.pre.rows[i], DropRight(last.pre.rows[1])),
                       store.rows[i])

C6_Witness ==
    /\ Done("v2")
    /\ \E i \in DataRows(last.pre) :
          last.pre.rows[i][2] = sIsoUtcSummer /\ store.rows[i][2] = sIsoAthensSummer
    /\ \E i \in DataRows(last.pre) :
          last.pre.rows[i][2] = sNotIso /\ store.rows[i] = last.pre.rows[i]

\* a Layout-A store: the legacy header, and six-field rows ending in ''
IsLayoutA(file) ==
    /\ file.exists /\ file.rows # <<>>
    /\ file.rows[1] = LayoutAHeader
    /\ \A i \in DataRows(file) : Len(file.rows[i]) = 6 /\ file.rows[i][6] = <<>>

\* C7: correct_file on a Layout-A store writes the header
\* [motorway,datetime,station,direction] and turns each row
\* [m,date,hour,st,dir,''] into [m, normalized(date,hour), st, dir] (the row
\* [A1,01/06/2025,15,St1,N,''] into [A1,2025-06-01 15:00:00+03:00,St1,N]), and
\* the backup file then holds the store as it was before the pass.
C7_LayoutACorrected ==
    (Done("v1") /\ IsLayoutA(last.pre)) =>
        /\ store.exists
        /\ Len(store.rows) = Len(last.pre.rows)
        /\ store.rows[1] = CanonHeader
        /\ \A i \in DataRows(last.pre) :
              /\ store.rows[i] =
                    <<last.pre.rows[i][1],
                      corrector_try_parse_datetime(last.pre.rows[i][2], last.pre.rows[i][3]),
                      last.pre.rows[i][4], last.pre.rows[i][5]>>
              /\ Len(store.rows[i]) = Len(store.rows[1])
              /\ last.pre.rows[i] = RawSummer
                    => store.rows[i] = <<sA1, sIsoLocalSummer, sSt1, sN>>
              /\ last.pre.rows[i] = RawWinter
                    => store.rows[i] = <<sA1, sIsoLocalWinter, sSt1, sS>>
        /\ bak = last.pre

C7_Witness ==
    /\ Done("v1") /\ IsLayoutA(last.pre)
    /\ \E i \in DataRows(last.pre) :
          last.pre.rows[i] = RawSummer
          /\ store.rows[i] = <<sA1, sIsoLocalSummer, sSt1, sN>>
    /\ bak = last.pre

\* a store already in canonical form: the canonical header and four-field rows
\* whose field 1 is a canonical timestamp
IsCanonical(file) ==
    /\ file.exists /\ file.rows # <<>>
    /\ file.rows[1] = CanonHeader
    /\ \A i \in DataRows(file) :
          Len(file.rows[i]) = 4 /\ _is_iso_with_tz(file.rows[i][2])

\* C8: correct_file on a store already in canonical form (its own output
\* included) takes the station for the hour: field 1 becomes the unparsed
\* "datetime station" concatenation, field 2 is removed, the header loses its
\* station label, so header and rows each lose a field and the second pass does
\* not give back the store of the first.
C8_SecondPassResplits ==
    (Done("v1") /\ IsCanonical(last.pre)) =>
        /\ Len(store.rows) = Len(last.pre.rows)
        /\ store.rows[1] = <<sMotorway, datetimeLabel, sDirection>>
        /\ \A i \in DataRows(last.pre) :
              /\ store.rows[i] =
                    <<last.pre.rows[i][1],
                      strip(last.pre.rows[i][2] \o <<" ">> \o last.pre.rows[i][3]),
                      last.pre.rows[i][4]>>
              /\ ~_is_iso_with_tz(store.rows[i][2])
        /\ store # last.pre

C8_Witness ==
    /\ Done("v1") /\ IsCanonical(last.pre)
    /\ prior.op = "v1" /\ prior.res = "ok"
    /\ Len(store.rows) > 1 /\ Len(store.rows[2]) = 3

\* C9: once a correct_file pass has failed in its final write after a
\* successful backup rename, the content it backed up is, in every later state,
\* in the store file or in the backup file.
C9_BackupStaysRecoverable ==
    lost.exists => (store = lost \/ bak = lost)

\* C9 (amended): when that pass ends, the backup file holds the pre-pass store
\* and the store file is gone; afterwards the backup file keeps that content
\* through every fetch_latest run and every correct_file run that finds no
\* store or no data, and only the backup rename of a later correct_file pass,
\* which needs a store file to exist again, replaces it.
C9_BackupKeptUntilNextRename ==
    [][ /\ (lost'.exists /\ ~lost.exists)
              => (bak' = lost' /\ ~store'.exists /\ last'.res = "write_failed")
        /\ (lost.exists /\ bak = lost /\ bak' # bak)
              => (pc = "v1_backup" /\ store.exists /\ bak' = store)
      ]_vars

C9_Witness ==
    /\ lost.exists /\ bak = lost
    /\ Done("fetch") /\ store.exists /\ store # lost
    /\ prior.op = "v1" /\ prior.res = "write_failed"

\* C10: correct_v2 is idempotent: a second correct_v2 pass right after one that
\* rewrote the store leaves the same header row and the same data rows.
C10_SecondV2PassChangesNothing ==
    (Done("v2") /\ prior.op = "v2" /\ prior.res = "ok") => store = last.pre

=============================================================================
